---- MODULE Spec2Model ----
(***************************************************************************)
(* A model of pydd.py, a dd-like block copy utility.                       *)
(*                                                                         *)
(* The state is the parsed command line (args), the file-system facts the  *)
(* program asks about (kind of the source, its content, the access rights),*)
(* the module globals BYTES_WRITTEN and BYTES_TO_WRITE, the locals of the  *)
(* copy loop, the two open files and what the process has printed and      *)
(* returned.  pc is the position of the main program; the SIGINT handler   *)
(* registered at line 41 may preempt it at every position.                 *)
(***************************************************************************)
EXTENDS Integers, Sequences, FiniteSets, TLC

\* ------------------------------------------------------------------ bounds
MaxSrcLen == 5     \* longest source content
MaxBs     == 4     \* largest --bs
MaxCount  == 2     \* largest --count
MaxSeek   == 2     \* largest --seek
MaxTs     == 1     \* largest --ts
MaxLoops  == 5     \* most iterations of the copy loop that are followed
MaxTime   == 5     \* latest reading of the clock, in seconds (TimedSpec)
MaxStrLen == 3     \* longest string handed to size() (SizeSpec)

\* ------------------------------------------------------------ Python values
\* An optional integer: Python's None, or an int.
None == [set |-> FALSE, val |-> 0]
Some(v) == [set |-> TRUE, val |-> v]

\* Python truth value of an optional int, as in "if args.count:" (None and 0
\* are both false).
Truthy(o) == o.set /\ o.val # 0

Min(a, b) == IF a < b THEN a ELSE b

\* The file kinds pathlib tells apart; "fifo" stands for every path that is
\* neither a regular file, a block device nor a character device and that
\* can still be opened for reading (a pipe such as /dev/stdin behind "|").
Kinds == {"file", "block", "char", "fifo"}

\* The access facts permissions_check asks about, one record per outcome.
Envs ==
    { e \in [in_exists : BOOLEAN, in_readable : BOOLEAN, out_exists : BOOLEAN,
             out_writable : BOOLEAN, outdir_writable : BOOLEAN] :
        /\ (~e.in_exists => ~e.in_readable)
        /\ (~(e.in_exists /\ e.in_readable) =>
                ~e.out_exists /\ ~e.out_writable /\ ~e.outdir_writable)
        /\ (e.out_exists => ~e.outdir_writable)
        /\ (~e.out_exists => ~e.out_writable) }

\* Content of a source of n bytes.  The program never looks at a byte's
\* value, so the bytes are numbered by position: any reordering, loss or
\* duplication of bytes on the way to the destination shows.
SrcContent(n) == [i \in 1..n |-> i]

\* What an existing destination holds before the run.
OldContent == <<0>>

VARIABLES
    args,           \* [bs, ts, count, seek] as parse_args returns them
    srcKind,        \* kind of input_file
    srcData,        \* bytes the source holds
    env,            \* access facts
    clockEnd,       \* the latest reading the clock gives during the run
    pc,             \* position of the main program
    BYTES_TO_WRITE, \* optional int, set by the planning step
    BYTES_WRITTEN,  \* the global counter
    buf_size,       \* local of the loop
    buf,            \* local of the loop: the bytes of the last read
    srcOpened,      \* src has been opened
    srcPos,         \* read position of src
    dstOpened,      \* dst has been opened (and so truncated)
    dst,            \* bytes the destination holds
    reads,          \* history: one record per src.read call
    stderr,         \* history: error lines and tracebacks
    summaries,      \* history: byte count of each final summary printed
    sigintAt,       \* position the SIGINT handler preempted, "" if it never ran
    exitStatus,     \* optional int: the process exit status
    clock,          \* the last reading of time.perf_counter()
    START_TIME,     \* the global; 0 until line 318 sets it
    last_status_update, \* local of __main__; 0 until line 319 sets it
    progress,       \* history: one record per progress line printed
    sizeArg,        \* the string s handed to size()
    sizeResult      \* what the call of size(s) did

vars == <<args, srcKind, srcData, env, clockEnd, pc, BYTES_TO_WRITE, BYTES_WRITTEN,
          buf_size, buf, srcOpened, srcPos, dstOpened, dst, reads, stderr,
          summaries, sigintAt, exitStatus, clock, START_TIME,
          last_status_update, progress, sizeArg, sizeResult>>

\* The conversion of one option's text happens before the run and is not
\* touched by it.
parsing == <<sizeArg, sizeResult>>
config == <<args, srcKind, srcData, env, clockEnd, parsing>>
files  == <<srcOpened, srcPos, dstOpened, dst, reads>>
locals == <<buf_size, buf>>
timers == <<clock, START_TIME, last_status_update, progress>>

\* ------------------------------------------------------------------- Init
OptRange(lo, hi) == {None} \cup {Some(v) : v \in lo..hi}

\* The state the globals and the handler registration leave (lines 25-41).
Start ==
    /\ pc = "check"
    /\ BYTES_TO_WRITE = None
    /\ BYTES_WRITTEN = 0
    /\ buf_size = 0
    /\ buf = <<>>
    /\ srcOpened = FALSE
    /\ srcPos = 0
    /\ dstOpened = FALSE
    /\ dst = IF env.out_exists THEN OldContent ELSE <<>>
    /\ reads = <<>>
    /\ stderr = <<>>
    /\ summaries = <<>>
    /\ sigintAt = ""
    /\ exitStatus = None
    /\ clock = 1
    /\ START_TIME = 0
    /\ last_status_update = 0
    /\ progress = <<>>
    /\ sizeArg = <<>>
    /\ sizeResult = [kind |-> "pending", digits |-> 0, power |-> 0]

\* Seconds between two progress lines ("> 1.0").
ReportInterval == 1

\* Every command line and every file-system situation within the bounds.
\* The clock is followed for a span too short for a progress line to come
\* due: two readings can be equal or differ.
Init ==
    /\ args \in [bs : 0..MaxBs, ts : OptRange(0, MaxTs),
                 count : OptRange(-1, MaxCount), seek : OptRange(-1, MaxSeek)]
    /\ srcKind \in Kinds
    /\ srcData \in {SrcContent(n) : n \in 0..MaxSrcLen}
    /\ env \in Envs
    /\ clockEnd = ReportInterval + 1
    /\ Start

\* Plain copies (no --count, --seek or --ts, all accesses granted) of a
\* regular file or a character device, with the clock followed to MaxTime.
TimedInit ==
    /\ args \in [bs : 0..MaxBs, ts : {None}, count : {None}, seek : {None}]
    /\ srcKind \in {"file", "char"}
    /\ srcData \in {SrcContent(n) : n \in 0..MaxSrcLen}
    /\ env \in {e \in Envs : e.in_readable /\ e.outdir_writable}
    /\ clockEnd = MaxTime
    /\ Start

\* The process ends with status 1 after printing msg to stderr: eprint and
\* sys.exit(1), or an uncaught exception and its traceback.
Die(msg) ==
    /\ pc' = "exit"
    /\ stderr' = Append(stderr, msg)
    /\ exitStatus' = Some(1)

\* ------------------------------------------------------ permissions_check
\* The error permissions_check reports, "" when it returns normally.
PermissionError(e) ==
    IF ~e.in_exists THEN "does not exist"
    ELSE IF ~e.in_readable THEN "No permission to read"
    ELSE IF e.out_exists
         THEN (IF ~e.out_writable THEN "No permission to write" ELSE "")
         ELSE (IF ~e.outdir_writable THEN "No permission to create" ELSE "")

PermissionsCheck ==
    /\ pc = "check"
    /\ IF PermissionError(env) # ""
       THEN Die(PermissionError(env))
       ELSE pc' = "seekcheck" /\ UNCHANGED <<stderr, exitStatus>>
    /\ UNCHANGED <<config, timers, files, locals, BYTES_TO_WRITE, BYTES_WRITTEN,
                   summaries, sigintAt>>

\* -------------------------------------------------------------- seek check
\* Mutant: only a positive --seek is rejected.
SeekRejected_PositiveOnly(kind, a) ==
    kind = "char" /\ a.seek.set /\ a.seek.val > 0

SeekRejected(kind, a) == kind = "char" /\ Truthy(a.seek)

SeekCheck ==
    /\ pc = "seekcheck"
    /\ IF SeekRejected(srcKind, args)
       THEN Die("is a character device - cannot seek it")
       ELSE pc' = "plan" /\ UNCHANGED <<stderr, exitStatus>>
    /\ UNCHANGED <<config, timers, files, locals, BYTES_TO_WRITE, BYTES_WRITTEN,
                   summaries, sigintAt>>

\* ----------------------------------------------------------------- planning
\* The planning step goes on to the transfer: --count is given (and not 0),
\* or the source is one of the three kinds it knows.
Supported_AnyKind(kind, a) == TRUE   \* mutant: the else branch is missing

Supported(kind, a) == Truthy(a.count) \/ kind \in {"block", "file", "char"}

\* blockdev_size: f.seek(0, 2) or f.tell()
blockdev_size(data) == Len(data)

\* BYTES_TO_WRITE as the planning step sets it (args.ts is never read).
PlannedTotal(kind, a, data) ==
    IF Truthy(a.count) THEN Some(a.bs * a.count.val)
    ELSE IF kind = "block" THEN Some(blockdev_size(data))
    ELSE IF kind = "file" THEN Some(Len(data))
    ELSE None

Plan ==
    /\ pc = "plan"
    /\ IF Supported(srcKind, args)
       THEN /\ BYTES_TO_WRITE' = PlannedTotal(srcKind, args, srcData)
            /\ pc' = "timers"
            /\ UNCHANGED <<stderr, exitStatus>>
       ELSE /\ Die("is an unsupported filetype")
            /\ UNCHANGED BYTES_TO_WRITE
    /\ UNCHANGED <<config, timers, files, locals, BYTES_WRITTEN, summaries, sigintAt>>

\* ------------------------------------------------------------------- clock
\* time.perf_counter() is monotonic: a reading is never before the last one,
\* and may equal it.  Readings are whole seconds from 1 to clockEnd.
Readings(last) == last..clockEnd

\* START_TIME = time.perf_counter(); last_status_update = time.perf_counter()
Timers ==
    /\ pc = "timers"
    /\ \E t1 \in Readings(clock) : \E t2 \in Readings(t1) :
         /\ START_TIME' = t1
         /\ last_status_update' = t2
         /\ clock' = t2
    /\ pc' = "open"
    /\ UNCHANGED <<config, files, locals, progress, BYTES_TO_WRITE,
                   BYTES_WRITTEN, stderr, summaries, sigintAt, exitStatus>>

\* ------------------------------------------------------------ open and seek
\* with input_file.open("rb") as src, output_file.open("wb") as dst
Open ==
    /\ pc = "open"
    /\ srcOpened' = TRUE
    /\ dstOpened' = TRUE
    /\ dst' = <<>>
    /\ pc' = "seek"
    /\ UNCHANGED <<config, timers, locals, srcPos, reads, BYTES_TO_WRITE,
                   BYTES_WRITTEN, stderr, summaries, sigintAt, exitStatus>>

\* src.seek raises on a pipe and on a negative offset.
SeekRaises(kind, offset) == kind = "fifo" \/ offset < 0

\* The byte offset src.seek(args.seek) moves to.
SeekOffset(a) == a.seek.val

Seek ==
    /\ pc = "seek"
    /\ IF ~Truthy(args.seek)
       THEN pc' = "loop" /\ UNCHANGED <<srcPos, stderr, exitStatus>>
       ELSE IF SeekRaises(srcKind, SeekOffset(args))
            THEN Die("Traceback: seek") /\ UNCHANGED srcPos
            ELSE /\ srcPos' = SeekOffset(args)
                 /\ pc' = "loop"
                 /\ UNCHANGED <<stderr, exitStatus>>
    /\ UNCHANGED <<config, timers, locals, srcOpened, dstOpened, dst, reads,
                   BYTES_TO_WRITE, BYTES_WRITTEN, summaries, sigintAt>>

\* ---------------------------------------------------------------- copy loop
\* Mutant: the last block is not cut to what is left.
NextBufSize_NoTail(total, written, bs) ==
    IF ~total.set THEN bs
    ELSE IF total.val - written = 0 THEN 0 ELSE bs

\* buf_size as the top of the loop computes it.
NextBufSize(total, written, bs) ==
    IF ~total.set THEN bs
    ELSE LET data_left == total.val - written
         IN  IF data_left < bs THEN data_left ELSE bs

LoopTop ==
    /\ pc = "loop"
    /\ buf_size' = NextBufSize(BYTES_TO_WRITE, BYTES_WRITTEN, args.bs)
    /\ IF buf_size' = 0
       THEN pc' = "done"
       ELSE Len(reads) < MaxLoops /\ pc' = "read"
    /\ UNCHANGED <<config, timers, files, buf, BYTES_TO_WRITE, BYTES_WRITTEN, stderr,
                   summaries, sigintAt, exitStatus>>

\* BufferedReader.read(n) on a blocking stream: n bytes unless the stream
\* ends first; read(-1) reads to the end of the stream.
ReadBuf(data, pos, n) ==
    IF n = -1 THEN SubSeq(data, pos + 1, Len(data))
    ELSE SubSeq(data, pos + 1, Min(pos + n, Len(data)))

Read ==
    /\ pc = "read"
    /\ IF buf_size < -1
       THEN \* ValueError: read length must be non-negative or -1
            /\ Die("Traceback: read")
            /\ UNCHANGED <<buf, srcPos, reads>>
       ELSE /\ buf' = ReadBuf(srcData, srcPos, buf_size)
            /\ srcPos' = srcPos + Len(buf')
            /\ reads' = Append(reads, [req |-> buf_size, off |-> srcPos,
                                       got |-> Len(buf'),
                                       at |-> BYTES_WRITTEN])
            /\ pc' = "write"
            /\ UNCHANGED <<stderr, exitStatus>>
    /\ UNCHANGED <<config, timers, buf_size, srcOpened, dstOpened, dst,
                   BYTES_TO_WRITE, BYTES_WRITTEN, summaries, sigintAt>>

\* The read fails with an OSError.
ReadError ==
    /\ pc = "read"
    /\ Die("Traceback: read")
    /\ UNCHANGED <<config, timers, files, locals, BYTES_TO_WRITE, BYTES_WRITTEN,
                   summaries, sigintAt>>

\* Mutant: the block goes in front of what was written before.
WriteDst_Prepend(content, b) == b \o content

\* dst.write(buf)
WriteDst(content, b) == content \o b

Write ==
    /\ pc = "write"
    /\ dst' = WriteDst(dst, buf)
    /\ pc' = "add"
    /\ UNCHANGED <<config, timers, locals, srcOpened, srcPos, dstOpened, reads,
                   BYTES_TO_WRITE, BYTES_WRITTEN, stderr, summaries, sigintAt,
                   exitStatus>>

\* The write fails with an OSError.
WriteError ==
    /\ pc = "write"
    /\ Die("Traceback: write")
    /\ UNCHANGED <<config, timers, files, locals, BYTES_TO_WRITE, BYTES_WRITTEN,
                   summaries, sigintAt>>

\* Mutant: the counter grows by the bytes the read returned.
Counted_Actual(written, size, b) == written + Len(b)

\* BYTES_WRITTEN += buf_size
Counted(written, size, b) == written + size

Add ==
    /\ pc = "add"
    /\ BYTES_WRITTEN' = Counted(BYTES_WRITTEN, buf_size, buf)
    /\ pc' = "status"
    /\ UNCHANGED <<config, timers, files, locals, BYTES_TO_WRITE, stderr, summaries,
                   sigintAt, exitStatus>>

\* rate(): bytes_written / elapsed_time raises ZeroDivisionError at 0.
RateRaises(elapsed_time) == elapsed_time = 0

\* Mutant: a progress line is due from exactly one second on.
ShouldReport_AtLeast(now, last) == now - last >= ReportInterval

\* now - last_status_update > 1.0
ShouldReport(now, last) == now - last > ReportInterval

\* The status update at the end of an iteration: a reading of the clock, and
\* when a progress line is due a second reading, update_status and the new
\* last_status_update.
Status ==
    /\ pc = "status"
    /\ \E now \in Readings(clock) :
         IF ShouldReport(now, last_status_update)
         THEN \E current_time \in Readings(now) :
                LET elapsed_time == current_time - START_TIME
                IN  /\ clock' = current_time
                    /\ IF RateRaises(elapsed_time)
                       THEN /\ Die("Traceback: ZeroDivisionError")
                            /\ UNCHANGED <<progress, last_status_update>>
                       ELSE /\ progress' = Append(progress,
                                    [bytes |-> BYTES_WRITTEN,
                                     elapsed |-> elapsed_time,
                                     now |-> now])
                            /\ last_status_update' = now
                            /\ pc' = "loop"
                            /\ UNCHANGED <<stderr, exitStatus>>
         ELSE /\ clock' = now
              /\ pc' = "loop"
              /\ UNCHANGED <<progress, last_status_update, stderr,
                             exitStatus>>
    /\ UNCHANGED <<config, files, locals, START_TIME, BYTES_TO_WRITE,
                   BYTES_WRITTEN, summaries, sigintAt>>

\* ------------------------------------------------------------ final summary
\* show_results prints the global BYTES_WRITTEN.
Reported(written) == written

\* show_results: a reading of the clock, then the summary line, unless rate
\* raises.  It ends the process with status on success.
show_results(status, atPc) ==
    \E current_time \in Readings(clock) :
        LET elapsed_time == current_time - START_TIME
        IN  /\ clock' = current_time
            /\ IF RateRaises(elapsed_time)
               THEN /\ Die("Traceback: ZeroDivisionError")
                    /\ UNCHANGED summaries
               ELSE /\ summaries' = Append(summaries, Reported(BYTES_WRITTEN))
                    /\ pc' = atPc
                    /\ exitStatus' = status
                    /\ UNCHANGED stderr

\* The loop has ended and both files are closed: show_results().
ShowResults ==
    /\ pc = "done"
    /\ show_results(None, "finish")
    /\ UNCHANGED <<config, files, locals, START_TIME, last_status_update,
                   progress, BYTES_TO_WRITE, BYTES_WRITTEN, sigintAt>>

\* The program runs off its end: the process exits with status 0.
Finish ==
    /\ pc = "finish"
    /\ pc' = "exit"
    /\ exitStatus' = Some(0)
    /\ UNCHANGED <<config, timers, files, locals, BYTES_TO_WRITE,
                   BYTES_WRITTEN, stderr, summaries, sigintAt>>

\* ------------------------------------------------------------ SIGINT handler
\* Mutant: the handler restarts the counter before it reports.
Interrupt_Resets ==
    /\ pc # "exit"
    /\ sigintAt' = pc
    /\ BYTES_WRITTEN' = 0
    /\ show_results(Some(0), "exit")
    /\ UNCHANGED <<config, files, locals, START_TIME, last_status_update,
                   progress, BYTES_TO_WRITE>>

\* signal_handler preempts the main program wherever it is: show_results and
\* sys.exit(0).  SystemExit, or the exception show_results raises, unwinds
\* the with block, which closes the files.
Interrupt ==
    /\ pc # "exit"
    /\ sigintAt' = pc
    /\ show_results(Some(0), "exit")
    /\ UNCHANGED <<config, files, locals, START_TIME, last_status_update,
                   progress, BYTES_TO_WRITE, BYTES_WRITTEN>>

Next ==
    \/ PermissionsCheck
    \/ SeekCheck
    \/ Plan
    \/ Timers
    \/ Open
    \/ Seek
    \/ LoopTop
    \/ Read
    \/ ReadError
    \/ Write
    \/ WriteError
    \/ Add
    \/ Status
    \/ ShowResults
    \/ Finish
    \/ Interrupt

Spec == Init /\ [][Next]_vars

TimedSpec == TimedInit /\ [][Next]_vars

\* ---------------------------------------------------------------- size(s)
\* A string is a sequence of characters; these are the characters tried.
Digits   == {"0", "1", "7"}
Suffixes == <<"k", "m", "g", "t", "p", "e", "z">>
Capitals == <<"K", "M", "G", "T", "P", "E", "Z">>
Alphabet == Digits \cup {Suffixes[i] : i \in DOMAIN Suffixes}
                   \cup {Capitals[i] : i \in DOMAIN Capitals} \cup {"\n", "x"}
Strings  == UNION {[1..n -> Alphabet] : n \in 0..MaxStrLen}

DigitValue == [c \in Digits |-> IF c = "0" THEN 0 ELSE IF c = "1" THEN 1 ELSE 7]

\* str.lower(), one character.
LowerChar(c) ==
    IF \E i \in DOMAIN Capitals : Capitals[i] = c
    THEN Suffixes[CHOOSE i \in DOMAIN Capitals : Capitals[i] = c]
    ELSE c

\* s.lower()
lower(str) == [i \in DOMAIN str |-> LowerChar(str[i])]

\* s[:-1]
ButLast(str) == SubSeq(str, 1, Len(str) - 1)

\* s.isdigit(): not empty and every character a digit.
isdigit(str) == Len(str) > 0 /\ \A i \in DOMAIN str : str[i] \in Digits

\* The whole of str is [0-9]+[kmgtpez]? with re.IGNORECASE.
FullMatch(str) ==
    \/ isdigit(str)
    \/ /\ Len(str) > 1
       /\ isdigit(ButLast(str))
       /\ \E i \in DOMAIN Suffixes : LowerChar(str[Len(str)]) = Suffixes[i]

\* re.search('^[0-9]+[kmgtpez]?$', s, re.IGNORECASE): without re.MULTILINE
\* "^" is the start of s, and "$" is the end of s or the place just before a
\* newline that ends s.
re_search(str) ==
    \/ FullMatch(str)
    \/ Len(str) > 0 /\ str[Len(str)] = "\n" /\ FullMatch(ButLast(str))

\* str.strip() as int() applies it: newlines at both ends are dropped.
RECURSIVE Strip(_)
Strip(str) ==
    IF str = <<>> THEN str
    ELSE IF str[1] = "\n" THEN Strip(Tail(str))
    ELSE IF str[Len(str)] = "\n" THEN Strip(ButLast(str))
    ELSE str

\* int(str) raises ValueError unless str, stripped, is digits.
IntRaises(str) == ~isdigit(Strip(str))

RECURSIVE DecimalValue(_)
DecimalValue(str) ==
    IF str = <<>> THEN 0
    ELSE DecimalValue(ButLast(str)) * 10 + DigitValue[str[Len(str)]]

\* int(str) where it does not raise.
IntValue(str) == DecimalValue(Strip(str))

\* The outcomes of a call. A returned integer is digits * 1024 ** power.
Returns(d, n) == [kind |-> "int", digits |-> d, power |-> n]
ReturnsNone   == [kind |-> "none", digits |-> 0, power |-> 0]
ValueError    == [kind |-> "error", digits |-> 0, power |-> 0]
NotCalled     == [kind |-> "pending", digits |-> 0, power |-> 0]

\* int(s) and int(s[:-1]) * 1024 ** n
Converted(str, n) ==
    IF IntRaises(str) THEN ValueError ELSE Returns(IntValue(str), n)

\* The branches "elif c in s.lower()" that hold, in the order of the chain.
Branches(str) ==
    {i \in DOMAIN Suffixes : \E j \in DOMAIN str : lower(str)[j] = Suffixes[i]}

\* size(s), lines 174-210. The chain has no else: when no branch holds the
\* function ends without a return statement.
size(str) ==
    IF ~re_search(str) THEN ValueError
    ELSE IF isdigit(str) THEN Converted(str, 0)
    ELSE IF Branches(str) # {}
         THEN LET n == CHOOSE i \in Branches(str) : \A j \in Branches(str) : i <= j
              IN  Converted(ButLast(str), n)
         ELSE ReturnsNone

\* One call of size on any string within the bounds.
SizeInit ==
    /\ args = [bs |-> 1, ts |-> None, count |-> None, seek |-> None]
    /\ srcKind = "file"
    /\ srcData = <<>>
    /\ env = [in_exists |-> TRUE, in_readable |-> TRUE, out_exists |-> FALSE,
              out_writable |-> FALSE, outdir_writable |-> TRUE]
    /\ clockEnd = 1
    /\ pc = "size"
    /\ BYTES_TO_WRITE = None
    /\ BYTES_WRITTEN = 0
    /\ buf_size = 0
    /\ buf = <<>>
    /\ srcOpened = FALSE
    /\ srcPos = 0
    /\ dstOpened = FALSE
    /\ dst = <<>>
    /\ reads = <<>>
    /\ stderr = <<>>
    /\ summaries = <<>>
    /\ sigintAt = ""
    /\ exitStatus = None
    /\ clock = 1
    /\ START_TIME = 0
    /\ last_status_update = 0
    /\ progress = <<>>
    /\ sizeArg \in Strings
    /\ sizeResult = NotCalled

ParseSize ==
    /\ pc = "size"
    /\ sizeResult' = size(sizeArg)
    /\ pc' = "sized"
    /\ UNCHANGED <<args, srcKind, srcData, env, clockEnd, sizeArg, files,
                   locals, timers, BYTES_TO_WRITE, BYTES_WRITTEN, stderr,
                   summaries, sigintAt, exitStatus>>

SizeNext == ParseSize

SizeSpec == SizeInit /\ [][SizeNext]_vars


\* ================================================================== claims
\* Positions of the main program after the planning step has set
\* BYTES_TO_WRITE, and positions inside the copy loop.
AfterPlan == {"timers", "open", "seek", "loop", "read", "write", "add", "status", "done"}
Copying   == {"loop", "read", "write", "add", "status"}

\* The run has ended by running off the end of the program.
Completed == pc = "exit" /\ sigintAt = "" /\ exitStatus = Some(0)

\* Bytes this run has written to the destination.
BytesInDst == IF dstOpened THEN Len(dst) ELSE 0

\* The run has touched neither file: nothing opened, truncated, read, written.
Untouched ==
    /\ ~srcOpened
    /\ ~dstOpened
    /\ reads = <<>>
    /\ dst = (IF env.out_exists THEN OldContent ELSE <<>>)

\* The run, if it has ended without a SIGINT, ended with an error line on
\* stderr and a non-zero status.
FailedUnlessInterrupted ==
    (pc = "exit" /\ sigintAt = "") =>
        (stderr # <<>> /\ exitStatus.set /\ exitStatus.val # 0)

\* C1: after every iteration of the copy loop BYTES_WRITTEN equals the number
\* of bytes actually written to the destination so far, also when a read
\* returned fewer bytes than were requested.
C1_CounterIsBytesWritten ==
    pc \in {"status", "loop", "done"} => BYTES_WRITTEN = BytesInDst

\* C2: copying a source of N bytes with block size B >= 1 and a planned total
\* (a byte count, so known and not negative) without seeking ends with a
\* destination that is exactly the first min(N, total) bytes of the source,
\* in order.
C2_RoundTrip ==
    (/\ pc = "done" \/ Completed
     /\ ~Truthy(args.seek)
     /\ args.bs >= 1
     /\ BYTES_TO_WRITE.set
     /\ BYTES_TO_WRITE.val >= 0)
    => dst = SubSeq(srcData, 1, Min(Len(srcData), BYTES_TO_WRITE.val))

\* C2 witness: a completed copy that took a full block and then a short one
\* and has planned more than the source holds.
C2_Witness ==
    /\ Completed
    /\ ~Truthy(args.seek)
    /\ args.bs = 2
    /\ BYTES_TO_WRITE = Some(4)
    /\ Len(srcData) = 3
    /\ dst = srcData

\* C3: a SIGINT delivered during Copying when k bytes have been written to
\* the destination makes the handler report exactly k bytes and the process
\* exit with status 0, wherever in the loop the handler preempts.
C3_InterruptReportsBytesWritten ==
    sigintAt \in Copying =>
        (summaries = <<BytesInDst>> /\ exitStatus = Some(0))

\* C4: with the total unknown the loop runs until the source yields no more
\* bytes: a read that returned zero bytes is the last read of the run (the
\* loop goes to Done after it).
C4_StopsAtEndOfStream ==
    (pc \in AfterPlan \cup {"exit"} /\ ~BYTES_TO_WRITE.set) =>
        \A i \in 1..(Len(reads) - 1) : reads[i].got # 0

\* C5: whenever --count is given, 0 included, the planned total is exactly
\* blockSize * blockCount, whatever the source is.
C5_CountSetsTotal ==
    (pc \in AfterPlan /\ args.count.set) =>
        BYTES_TO_WRITE = Some(args.bs * args.count.val)

\* C6: when --count is not given and --ts is, the planned total is the
\* supplied total size, for every kind of source.
C6_TotalSizeIsUsed ==
    (~args.count.set /\ args.ts.set) =>
        /\ pc \in AfterPlan => BYTES_TO_WRITE = args.ts
        /\ ~("is an unsupported filetype" \in {stderr[i] : i \in DOMAIN stderr})

C9_SeekSkipsBlocks ==
    (/\ srcKind \in {"file", "block"}
     /\ args.seek.set
     /\ Len(reads) >= 1
     /\ reads[1].got >= 1)
    => reads[1].off = args.seek.val * args.bs

\* C10: with the total known (and not negative), blockSize >= 1 and a source
\* holding at least the total, every read requests
\* min(blockSize, total - BYTES_WRITTEN) bytes: blockSize for each of the
\* first floor(total / blockSize) reads, then total mod blockSize once when
\* that is not 0; and the loop ends in Done with BYTES_WRITTEN = total.
C10_ReadSizes ==
    (/\ BYTES_TO_WRITE.set
     /\ BYTES_TO_WRITE.val >= 0
     /\ args.bs >= 1
     /\ Len(srcData) >= BYTES_TO_WRITE.val)
    => LET total == BYTES_TO_WRITE.val
           full  == total \div args.bs
           tail  == total % args.bs
           n     == IF tail = 0 THEN full ELSE full + 1
       IN  /\ Len(reads) <= n
           /\ \A i \in 1..Len(reads) :
                reads[i].req = (IF i <= full THEN args.bs ELSE tail)
           /\ pc = "read" => buf_size = Min(args.bs, total - BYTES_WRITTEN)
           /\ (pc = "done" \/ Completed) =>
                (Len(reads) = n /\ BYTES_WRITTEN = total)

\* C10 witness: 5 bytes at block size 2 have been copied with reads of
\* 2, 2 and 1 bytes, and the loop has ended.
C10_Witness ==
    /\ pc = "done"
    /\ srcKind = "file"
    /\ ~args.count.set
    /\ Len(srcData) = 5
    /\ args.bs = 2
    /\ BYTES_TO_WRITE = Some(5)
    /\ [i \in 1..Len(reads) |-> reads[i].req] = <<2, 2, 1>>
    /\ BYTES_WRITTEN = 5

\* The lines on stderr.
Errors == {stderr[i] : i \in DOMAIN stderr}

\* C11: the exit status is 0 exactly on normal completion or user interrupt:
\* 0 whenever the handler has run, 0 whenever the program got to its end
\* (stderr then holds none of the failure lines below), and not 0 after a
\* pre-flight failure, an unsupported source, a seek on a character device
\* or a failed read, write or seek; a failed read or write ends the run.
C11_ExitStatus ==
    LET failures == Errors \ {"Traceback: ZeroDivisionError"}
    IN  /\ (failures \cap {"Traceback: read", "Traceback: write"} # {})
              => pc = "exit"
        /\ pc = "exit" =>
             /\ sigintAt # "" => exitStatus = Some(0)
             /\ (sigintAt = "" /\ failures = {}) => exitStatus = Some(0)
             /\ (sigintAt = "" /\ failures # {}) =>
                    (exitStatus.set /\ exitStatus.val # 0)

\* C12: no step makes BYTES_WRITTEN smaller, for any --count and block size
\* the command line accepts.
C12_CounterNeverDecreases == [][BYTES_WRITTEN' >= BYTES_WRITTEN]_vars

\* C13: computing the rate never divides by zero: no summary and no progress
\* line ends in a ZeroDivisionError, also when the elapsed time is 0.
C13_RateNeverRaises == "Traceback: ZeroDivisionError" \notin Errors

\* C15: with the total known, a read that returns zero bytes while
\* BYTES_WRITTEN < total is the last I/O of the run: no write and no read
\* follows it and BYTES_WRITTEN stays what it was.
C15_EmptyReadEndsLoop ==
    BYTES_TO_WRITE.set =>
        \A i \in 1..Len(reads) :
            (reads[i].got = 0 /\ reads[i].at < BYTES_TO_WRITE.val) =>
                /\ i = Len(reads)
                /\ pc \in {"write", "done", "finish", "exit"}
                /\ BYTES_WRITTEN = reads[i].at

\* C16: the interrupt path only reads the transfer state: a step of the
\* handler, and the final show_results, leave BYTES_WRITTEN, START_TIME and
\* last_status_update as they are; the steps that write them are steps of
\* the main program (the timers before the loop, the counter update and the
\* status update in it).
C16_InterruptReadsOnly ==
    [][/\ (sigintAt' # sigintAt \/ pc = "done") =>
            UNCHANGED <<BYTES_WRITTEN, START_TIME, last_status_update>>
       /\ ~UNCHANGED <<BYTES_WRITTEN, START_TIME, last_status_update>> =>
            (pc \in {"timers", "add", "status"} /\ sigintAt' = sigintAt)]_vars

\* C16 witness: the handler has run in the loop after bytes were counted and
\* the timers were set, and has printed its summary.
C16_Witness ==
    /\ sigintAt \in Copying
    /\ summaries = <<BYTES_WRITTEN>>
    /\ BYTES_WRITTEN > 0
    /\ START_TIME > 0
    /\ last_status_update > 0

\* C18: with the total known and blockSize > 0, 0 <= BYTES_WRITTEN <= total
\* in every state of the copy loop, and the loop leaves Copying for Done
\* exactly when BYTES_WRITTEN = total.
C18_CounterWithinTotal ==
    (pc \in Copying \cup {"done"} /\ BYTES_TO_WRITE.set /\ args.bs > 0) =>
        /\ 0 <= BYTES_WRITTEN
        /\ BYTES_WRITTEN <= BYTES_TO_WRITE.val
        /\ pc = "done" => BYTES_WRITTEN = BYTES_TO_WRITE.val
        /\ pc = "read" => BYTES_WRITTEN # BYTES_TO_WRITE.val

\* C19: with the total known and not negative and blockSize > 0 the loop
\* makes at most ceil(total / blockSize) iterations whatever the reads
\* return: there are never more reads than that, and once there are that
\* many the counter has reached the total, so the next loop head ends the
\* loop.  With blockSize = 0 there is no iteration.
C19_IterationBound ==
    /\ (BYTES_TO_WRITE.set /\ BYTES_TO_WRITE.val >= 0 /\ args.bs > 0) =>
          LET n == (BYTES_TO_WRITE.val + args.bs - 1) \div args.bs
          IN  /\ Len(reads) <= n
              /\ (pc \in {"status", "loop"} /\ Len(reads) = n) =>
                    BYTES_WRITTEN = BYTES_TO_WRITE.val
              /\ (pc = "loop" /\ BYTES_WRITTEN = BYTES_TO_WRITE.val) =>
                    NextBufSize(BYTES_TO_WRITE, BYTES_WRITTEN, args.bs) = 0
    /\ args.bs = 0 =>
          (reads = <<>> /\ pc \notin {"read", "write", "add", "status"})

\* C19 witness: a planned total of 4 at block size 2 over a 1-byte source: a
\* short read and an empty read, and the loop has ended after 2 iterations.
C19_Witness ==
    /\ pc = "done"
    /\ BYTES_TO_WRITE = Some(4)
    /\ args.bs = 2
    /\ [i \in 1..Len(reads) |-> reads[i].got] = <<1, 0>>

\* C20: a run that got past the pre-flight checks and ended by completion or
\* by SIGINT has printed the final summary exactly once, and START_TIME was
\* set before it was printed.
C20_OneSummaryAfterStart ==
    (/\ pc = "exit"
     /\ sigintAt \notin {"check", "seekcheck", "plan"}
     /\ Errors \subseteq {"Traceback: ZeroDivisionError"})
    => (Len(summaries) = 1 /\ START_TIME # 0)

\* C17: at the end of an iteration a progress line is printed if and only if
\* more than 1.0 second has passed since the last one (since the timers were
\* set when there is none); printing sets last_status_update to the
\* iteration's timestamp and reports the iteration's BYTES_WRITTEN; so two
\* consecutive progress lines are more than 1.0 second apart.
C17_ProgressCadence ==
    /\ [][(pc = "status" /\ pc' = "loop") =>
            LET emitted == Len(progress') = Len(progress) + 1
                now     == IF emitted THEN last_status_update' ELSE clock'
            IN  /\ emitted \/ progress' = progress
                /\ emitted <=> (now - last_status_update > ReportInterval)
                /\ emitted =>
                     /\ progress'[Len(progress')].bytes = BYTES_WRITTEN
                     /\ progress'[Len(progress')].now = now
                     /\ SubSeq(progress', 1, Len(progress)) = progress
                /\ ~emitted => last_status_update' = last_status_update]_vars
    /\ [](\A i \in 1..(Len(progress) - 1) :
            progress[i + 1].now - progress[i].now > ReportInterval)

\* C17 witness: two progress lines, two seconds apart, for different counts;
\* the iteration between them printed none.
C17_Witness ==
    /\ Len(progress) = 2
    /\ progress[2].now - progress[1].now = 2
    /\ progress[2].bytes - progress[1].bytes = 2 * args.bs
    /\ args.bs > 0

\* C14: for every string s, if the whole of s is digits followed by at most
\* one of K, M, G, T, P, E, Z in either case, size(s) returns the value of
\* the digits times 1024^n, n the suffix's position (0 with no suffix); for
\* every other string size(s) raises an error: it returns no value and it
\* does not return None.
C14_SizeContract ==
    pc = "sized" =>
        IF FullMatch(sizeArg)
        THEN LET last == LowerChar(sizeArg[Len(sizeArg)])
                 n == IF last \in Digits THEN 0
                      ELSE CHOOSE i \in DOMAIN Suffixes : Suffixes[i] = last
                 digits == IF n = 0 THEN sizeArg ELSE ButLast(sizeArg)
             IN  sizeResult = Returns(DecimalValue(digits), n)
        ELSE sizeResult = ValueError

====
